---- MODULE Spec2Model ----
(***************************************************************************)
(* Catalog generator (shop-gen): the content generator client              *)
(* (deepseek_client.py), the image source client (pexels_client.py), the   *)
(* catalog assembler (catalog_builder.py) and the archive packager         *)
(* (archive_service.py), as state machines.                                *)
(*                                                                         *)
(* Texts are run-length encoded: a text is a sequence of runs              *)
(* [ch |-> class, n |-> length > 0] in which adjacent runs differ in ch,   *)
(* so that two texts are equal exactly when their encodings are, and       *)
(* lengths, slices and concatenations are exact.  Prices are integer       *)
(* cents.                                                                  *)
(***************************************************************************)
EXTENDS Integers, Sequences, FiniteSets, TLC

VARIABLES
    env,            \* what the upstream services and the random source may do in this run
    image_data,     \* DeepSeekClient.generate_batch_catalog_entries: its argument
    category,       \* ... and its category argument
    ds_pc,          \* position inside generate_batch_catalog_entries
    ds_i,           \* _generate_batch_fallback: loop index (1-based)
    ds_entries,     \* _generate_batch_fallback: local catalog_entries
    ds_result,      \* the list generate_batch_catalog_entries returned
    ds_requests,    \* content-API requests issued, in order
    batch_outcome,  \* how the batch request of the current call ended
    last_item,      \* the last generate_product_content call: alt, response, result
    price_calls,    \* number of generate_price calls so far
    theme,          \* PexelsClient.get_images_for_theme: its theme argument
    min_images,     \* ... its min_images argument
    max_images,     \* ... its max_images argument
    px_pc,          \* position inside get_images_for_theme
    all_images,     \* the candidate pool
    page,           \* the next page to request
    searches,       \* pages requested from the search endpoint, in order
    selected_images,\* the list get_images_for_theme returned
    sample_pos,     \* positions of the pool that went into selected_images, in order
    cb_pc,          \* CatalogBuilder.build_catalog: position
    images,         \* ... the images fetched
    catalog_entries,\* ... the entries accumulated
    cb_i,           \* ... offset of the current batch (i of range(0, len(images), 20))
    dl_i,           \* ... index of the download loop (1-based)
    downloads,      \* download attempts so far: [pos, ok], in order
    cb_error,       \* the message of the error build_catalog raised
    out_dir,        \* file system: output_dir exists
    images_dir,     \* file system: output_dir/images exists
    image_files,    \* file system: the files in output_dir/images
    csv,            \* file system: output_dir/catalog.csv
    archive,        \* file system: what is at the archive path
    ar_pc,          \* ArchiveService: position (create, validate, ...)
    ar_created,     \* create_catalog_archive has returned the archive path
    ar_error,       \* the message of the error create_catalog_archive raised
    report,         \* what validate_archive returned
    keys,           \* main: which API keys the environment holds
    main_pc,        \* main: position
    exit_code,      \* main: the value main returned (-1: none)
    progress_store, \* web_server: the shared progress record (a dict)
    threads,        \* web_server: the generation threads, one record per run
    web_env,        \* web_server: what the image search and the downloads may do
    written,        \* the status values written to progress_store, in order
    sse_sent        \* the status values of the snapshots the progress stream has sent

dsVars == <<image_data, category, ds_pc, ds_i, ds_entries, ds_result,
            ds_requests, batch_outcome, last_item, price_calls>>

pxVars == <<theme, min_images, max_images, px_pc, all_images, page, searches,
            selected_images, sample_pos>>

cbVars == <<cb_pc, images, catalog_entries, cb_i, dl_i, downloads, cb_error>>

fsVars == <<out_dir, images_dir, image_files, csv>>

arVars == <<archive, ar_pc, ar_created, ar_error, report>>

mainVars == <<keys, main_pc, exit_code>>

webVars == <<progress_store, threads, web_env, written, sse_sent>>

callerVars == <<mainVars, webVars>>

vars == <<env, dsVars, pxVars, cbVars, fsVars, arVars, callerVars>>

(***************************************************************************)
(* Texts                                                                   *)
(***************************************************************************)
Txt(c, n) == IF n = 0 THEN <<>> ELSE << [ch |-> c, n |-> n] >>

RECURSIVE TLen(_)
TLen(t) == IF t = <<>> THEN 0 ELSE t[1].n + TLen(Tail(t))

\* t[:k]
RECURSIVE TTake(_, _)
TTake(t, k) ==
    IF k <= 0 \/ t = <<>> THEN <<>>
    ELSE IF t[1].n <= k THEN <<t[1]>> \o TTake(Tail(t), k - t[1].n)
    ELSE << [ch |-> t[1].ch, n |-> k] >>

\* a + b
TCat(a, b) ==
    IF a = <<>> THEN b
    ELSE IF b = <<>> THEN a
    ELSE IF a[Len(a)].ch = b[1].ch
         THEN SubSeq(a, 1, Len(a) - 1)
              \o << [ch |-> b[1].ch, n |-> a[Len(a)].n + b[1].n] >>
              \o Tail(b)
         ELSE a \o b

(***************************************************************************)
(* Program constants                                                       *)
(***************************************************************************)
TitleMax == 50          \* alt_text[:50]
ExpandBelow == 300      \* if len(base_desc) < 300
DescFloor == 400        \* while len(base_desc) < 400
DescCap == 500          \* base_desc[:500]
ExpansionLen == 288     \* len(expansion_text)
DefaultAltLen == 13     \* len('Product image')
PerPage == 80           \* search_images(theme, per_page=80, ...)
PageLimit == 10         \* if page > 10: break
DefaultMin == 160       \* min_images: int = 160
DefaultMax == 240       \* max_images: int = 240
BatchSize == 20         \* batch_size = 20
MinCents == 10000       \* random.uniform(100, ...), in cents
MaxCents == 1000000     \* random.uniform(..., 10000), in cents

(***************************************************************************)
(* Bounds of the model                                                     *)
(***************************************************************************)
MaxBatch == 2           \* longest image_data of a free-standing batch call
PriceSpan == 6          \* prices are drawn within PriceSpan cents of either end
MaxPhotosPerPage == 2   \* photos an unconstrained search upstream puts on one page
MaxWanted == 3          \* largest max_images tried besides the default
MaxImages == 21         \* most photos a paged search upstream has for a theme
MaxDownloadFailures == 1 \* most image downloads that fail in one run
MaxFiles == 3           \* most files in an images directory given to the archive service
MaxMembers == 2         \* most members of an archive found at the archive path
MaxMainImages == 2      \* most photos the search serves during a run of main
MaxWebBatches == 2      \* most batches of a generation thread of the web server
MaxThemeIndex == 1      \* themes drawn from the first MaxThemeIndex of SHOP_THEMES

Min(a, b) == IF a <= b THEN a ELSE b
Max(a, b) == IF a >= b THEN a ELSE b

(***************************************************************************)
(* theme_selector.py                                                       *)
(***************************************************************************)
SHOP_THEMES == <<"clothing", "electronics", "home decor", "beauty", "sports",
                 "books", "toys", "jewelry", "automotive", "health">>

\* random.choice(SHOP_THEMES): every theme it may return (within the bound)
select_random_theme == {SHOP_THEMES[k] : k \in 1..Min(MaxThemeIndex, Len(SHOP_THEMES))}

(***************************************************************************)
(* deepseek_client.py: pure parts                                          *)
(***************************************************************************)
expansion_text == Txt("x", ExpansionLen)
ProductImage == Txt("p", DefaultAltLen)

\* Title and description the content API puts in a JSON object it returns.
ApiTitle == Txt("t", 20)
ApiDescription == Txt("d", 350)

Returned(v) == [raised |-> FALSE, value |-> v]
Raised == [raised |-> TRUE, value |-> <<>>]

\* while len(base_desc) < 400: base_desc += expansion_text
RECURSIVE Expand(_)
Expand(base_desc) ==
    IF TLen(base_desc) < DescFloor THEN Expand(TCat(base_desc, expansion_text))
    ELSE base_desc

\* Variant: every alt text below the floor of 400 is expanded.
generate_fallback_content_floor(alt_text) ==
    [title |-> TTake(alt_text, TitleMax), description |-> TTake(Expand(alt_text), DescCap)]

\* Variant: the description is not expanded.
generate_fallback_content_plain(alt_text) ==
    [title |-> TTake(alt_text, TitleMax), description |-> TTake(alt_text, DescCap)]

generate_fallback_content(alt_text) ==
    LET title == IF TLen(alt_text) > TitleMax THEN TTake(alt_text, TitleMax) ELSE alt_text
        base_desc == IF TLen(alt_text) < ExpandBelow THEN Expand(alt_text) ELSE alt_text
        description == IF TLen(base_desc) > DescCap THEN TTake(base_desc, DescCap)
                       ELSE base_desc
    IN [title |-> title, description |-> description]

\* The loop of _parse_text_response over content.split('\n').  A line is
\* [key, value]: key says which marker ('"title":', '"description":' or none)
\* the line holds, value is what split/strip leave of the line after the marker.
RECURSIVE ParseLines(_, _, _)
ParseLines(lines, title, description) ==
    IF lines = <<>> THEN [title |-> title, description |-> description]
    ELSE LET line == Head(lines) IN
         IF line.key = "title" THEN ParseLines(Tail(lines), line.value, description)
         ELSE IF line.key = "description"
              THEN ParseLines(Tail(lines), title,
                              IF line.value # <<>> THEN line.value ELSE description)
         ELSE ParseLines(Tail(lines), title, description)

parse_text_response(content, alt_text) ==
    ParseLines(content, TTake(alt_text, TitleMax), alt_text)

\* A response to the single-item request:
\*   transport_error  requests.post raises
\*   http_error       raise_for_status raises
\*   bad_body         response.json() raises, or result["choices"][0]... does
\*   json_dict        content is a JSON object (with or without the two keys)
\*   json_other       content is JSON but no object: parsed.get raises
\*   text             content is no JSON: json.loads raises JSONDecodeError
ItemResponse(kind, has_title, has_description, lines) ==
    [kind |-> kind, has_title |-> has_title, has_description |-> has_description,
     lines |-> lines]

TitleLine(v) == [key |-> "title", value |-> v]
DescriptionLine(v) == [key |-> "description", value |-> v]
OtherLine == [key |-> "other", value |-> <<>>]

TextContents ==
    { <<OtherLine>>,
      <<TitleLine(ApiTitle)>>,
      <<TitleLine(<<>>)>>,
      <<OtherLine, DescriptionLine(ApiDescription)>>,
      <<DescriptionLine(<<>>)>>,
      <<TitleLine(ApiTitle), DescriptionLine(ApiDescription), OtherLine>> }

FailureKinds == {"transport_error", "http_error", "bad_body"}

ItemResponses ==
    {ItemResponse(k, FALSE, FALSE, <<>>) : k \in FailureKinds \cup {"json_other"}}
    \cup {ItemResponse("json_dict", t, d, <<>>) : t \in BOOLEAN, d \in BOOLEAN}
    \cup {ItemResponse("text", FALSE, FALSE, c) : c \in TextContents}

CoreItemResponses ==
    { ItemResponse("transport_error", FALSE, FALSE, <<>>),
      ItemResponse("json_other", FALSE, FALSE, <<>>),
      ItemResponse("json_dict", TRUE, TRUE, <<>>),
      ItemResponse("text", FALSE, FALSE, <<OtherLine>>) }

\* Variant: the outer except clause is missing, a failed call propagates.
generate_product_content_no_except(alt_text, r) ==
    IF r.kind \in FailureKinds \cup {"json_other"} THEN Raised
    ELSE IF r.kind = "text" THEN Returned(parse_text_response(r.lines, alt_text))
    ELSE Returned([title |-> IF r.has_title THEN ApiTitle ELSE TTake(alt_text, TitleMax),
                   description |-> IF r.has_description THEN ApiDescription ELSE alt_text])

generate_product_content(alt_text, r) ==
    LET try == IF r.kind \in FailureKinds THEN Raised
               ELSE IF r.kind = "text"
                    THEN Returned(parse_text_response(r.lines, alt_text))
               ELSE IF r.kind = "json_dict"
                    THEN Returned([title |-> IF r.has_title THEN ApiTitle
                                             ELSE TTake(alt_text, TitleMax),
                                   description |-> IF r.has_description THEN ApiDescription
                                                   ELSE alt_text])
               ELSE Raised
    IN IF try.raised THEN Returned(generate_fallback_content(alt_text)) ELSE try

\* round(x, 2) of x = num/den cents: the nearest cent.  A value exactly half way
\* is a binary float a hair above or below, so either neighbour may come out.
RoundCents(num, den, up) ==
    LET q == num \div den
        r == num % den
    IN IF 2 * r < den THEN q
       ELSE IF 2 * r > den THEN q + 1
       ELSE IF up THEN q + 1 ELSE q

IsTie(num, den) == 2 * (num % den) = den

\* old_price = round(random.uniform(100, 10000), 2) = u cents;
\* new_price = round(old_price * (1 - 0.10), 2)
\* Variant: the new price is cut to whole cents instead of rounded.
generate_price_truncated(u, up) ==
    [old_price |-> u, new_price |-> (u * 9) \div 10]

generate_price(u, up) ==
    [old_price |-> u, new_price |-> RoundCents(u * 9, 10, up)]

\* Every result generate_price may give when the random source draws from `draws`.
Prices(draws) ==
    UNION { {generate_price(u, up) : up \in {b \in BOOLEAN : b = FALSE \/ IsTie(u * 9, 10)}}
            : u \in draws }

Entry(id, content, cat, prices, pos, call) ==
    [id |-> id,
     title_en |-> content.title,
     description_en |-> content.description,
     category |-> cat,
     old_price |-> prices.old_price,
     new_price |-> prices.new_price,
     src_pos |-> pos,          \* position in image_data of the descriptor used
     price_call |-> call]      \* serial number of the generate_price call used

\* pos and call are bookkeeping: which descriptor, which generate_price call.
generate_catalog_entry(alt_text, cat, product_id, r, prices, pos, call) ==
    LET content == generate_product_content(alt_text, r)
    IN IF content.raised THEN Raised
       ELSE Returned(Entry(product_id, content.value, cat, prices, pos, call))

\* img.get('alt', 'Product image')
AltOf(img) == IF img.has_alt THEN img.alt ELSE ProductImage

(***************************************************************************)
(* deepseek_client.py: generate_batch_catalog_entries as a state machine   *)
(***************************************************************************)
\* A response to the batch request: kind is one of FailureKinds, or
\*   not_json   content is no JSON: json.loads raises JSONDecodeError
\*   not_list   content is JSON but no array
\*   list       content is a JSON array; items gives the shape of each element:
\*              full / no_title / no_description / empty are JSON objects,
\*              non_dict is anything else (a string, a number, null)
ItemShapes == {"full", "no_title", "no_description", "empty", "non_dict"}
CoreShapes == {"full", "non_dict"}
BatchKinds == FailureKinds \cup {"not_json", "not_list", "list", "short_list", "long_list"}

BatchResponse(kind, items) == [kind |-> kind, items |-> items]

\* The responses the upstream e may give to a batch request for n items.
BatchResponses(n, e) ==
    {BatchResponse(k, <<>>) : k \in e.kinds \cap (FailureKinds \cup {"not_json", "not_list"})}
    \cup (IF "list" \in e.kinds
          THEN {BatchResponse("list", f) : f \in [1..n -> e.shapes]} ELSE {})
    \cup (IF "short_list" \in e.kinds /\ n > 0
          THEN {BatchResponse("list", [i \in 1..(n - 1) |-> "full"])} ELSE {})
    \cup (IF "long_list" \in e.kinds
          THEN {BatchResponse("list", [i \in 1..(n + 1) |-> "full"])} ELSE {})

\* isinstance(parsed, list) and len(parsed) == len(alt_texts)
FormatMatches(r, n) == r.kind = "list" /\ Len(r.items) = n

\* content_item.get("title", alt_texts[i][:50]), content_item.get("description", alt_texts[i])
BatchItemContent(shape, alt_text) ==
    [title |-> IF shape \in {"full", "no_description"} THEN ApiTitle
               ELSE TTake(alt_text, TitleMax),
     description |-> IF shape \in {"full", "no_title"} THEN ApiDescription
                     ELSE alt_text]

\* The first element of the array on which content_item.get raises (0: none).
FirstNonDict(items) ==
    LET bad == {i \in 1..Len(items) : items[i] = "non_dict"}
    IN IF bad = {} THEN 0 ELSE CHOOSE i \in bad : \A j \in bad : i <= j

\* Variant: the ids go on from the entries made so far.
BatchEntries_numbered_on(items, alt_texts, cat, ps, calls) ==
    [i \in 1..Len(items) |->
        Entry(calls + i, BatchItemContent(items[i], alt_texts[i]), cat, ps[i], i, calls + i)]

\* The loop over enumerate(parsed): the entries, given the prices drawn.
BatchEntries(items, alt_texts, cat, ps, calls) ==
    [i \in 1..Len(items) |->
        Entry(i, BatchItemContent(items[i], alt_texts[i]), cat, ps[i], i, calls + i)]

\* How the batch request ended, as the caller sees it.
BatchClass(r, n) ==
    IF r.kind # "list" THEN r.kind
    ELSE IF Len(r.items) # n THEN "list_length"
    ELSE IF FirstNonDict(r.items) # 0 THEN "list_bad_item"
    ELSE "list_ok"

\* A request to the content API: the batch request (pos 0) or the single-item
\* request for descriptor pos, and how it ended.
Request(kind, pos, outcome) == [kind |-> kind, pos |-> pos, outcome |-> outcome]

NoItem == [alt |-> <<>>, resp |-> ItemResponse("none", FALSE, FALSE, <<>>),
           content |-> [title |-> <<>>, description |-> <<>>], raised |-> FALSE]

\* No caller (main) is running.
MainIdle ==
    /\ keys = [pexels |-> TRUE, deepseek |-> TRUE]
    /\ main_pc = "idle"
    /\ exit_code = -1

\* A generation thread that has not been started.
NoThread ==
    [pc |-> "idle", theme |-> "", n |-> 0, b |-> 0, entries |-> 0, i |-> 0, files |-> 0,
     failures |-> 0, dir |-> FALSE, images_dir |-> FALSE, csv |-> -1, archive |-> -1,
     error |-> ""]

\* progress_store = {}
EmptyDict == [k \in {} |-> 0]

\* The web server has served no request.
WebIdle ==
    /\ progress_store = EmptyDict
    /\ threads = [r \in {} |-> NoThread]
    /\ web_env = [counts |-> {}, failures |-> 0]
    /\ written = <<>>
    /\ sse_sent = {}

CallerIdle == MainIdle /\ WebIdle

\* No call of generate_batch_catalog_entries is under way.
DeepSeekIdle ==
    /\ image_data = <<>>
    /\ category = SHOP_THEMES[1]
    /\ ds_pc = "idle"
    /\ ds_i = 0
    /\ ds_entries = <<>>
    /\ ds_result = <<>>
    /\ ds_requests = <<>>
    /\ batch_outcome = "none"
    /\ last_item = NoItem
    /\ price_calls = 0

\* if not image_data: return []
EmptyCall ==
    /\ ds_pc = "call"
    /\ image_data = <<>>
    /\ ds_result' = <<>>
    /\ ds_pc' = "done"
    /\ UNCHANGED <<env, image_data, category, ds_i, ds_entries, ds_requests,
                   batch_outcome, last_item, price_calls, pxVars, cbVars, fsVars, arVars, callerVars>>

\* The batch request and what the code does with its response: return the
\* entries, or hand over to _generate_batch_fallback.
BatchRequest ==
    /\ ds_pc = "call"
    /\ image_data # <<>>
    /\ \E r \in BatchResponses(Len(image_data), env) :
        LET n == Len(image_data)
            alt_texts == [i \in 1..n |-> AltOf(image_data[i])]
            bad == IF FormatMatches(r, n) THEN FirstNonDict(r.items) ELSE 0
        IN /\ ds_requests' = Append(ds_requests, Request("batch", 0, BatchClass(r, n)))
           /\ batch_outcome' = BatchClass(r, n)
           /\ IF FormatMatches(r, n) /\ bad = 0
              THEN \E ps \in [1..n -> Prices(env.draws)] :
                      /\ ds_result' = BatchEntries(r.items, alt_texts, category, ps, price_calls)
                      /\ price_calls' = price_calls + n
                      /\ ds_pc' = "done"
                      /\ UNCHANGED <<ds_i, ds_entries>>
              ELSE /\ price_calls' = price_calls + bad
                   /\ ds_pc' = "fallback"
                   /\ ds_i' = 1
                   /\ ds_entries' = <<>>
                   /\ UNCHANGED ds_result
    /\ UNCHANGED <<env, image_data, category, last_item, pxVars, cbVars, fsVars, arVars, callerVars>>

\* Variant: _generate_batch_fallback returns after the first descriptor.
ItemRequest_first_only ==
    /\ ds_pc = "fallback"
    /\ \E r \in env.item : \E prices \in Prices(env.draws) :
        LET alt_text == AltOf(image_data[ds_i])
            got == generate_catalog_entry(alt_text, category, ds_i, r, prices,
                                          ds_i, price_calls + 1)
            content == generate_product_content(alt_text, r)
        IN /\ ds_requests' = Append(ds_requests, Request("item", ds_i, r.kind))
           /\ last_item' = [alt |-> alt_text, resp |-> r, content |-> content.value,
                            raised |-> content.raised]
           /\ price_calls' = price_calls + 1
           /\ ds_entries' = Append(ds_entries, got.value)
           /\ ds_result' = Append(ds_entries, got.value)
           /\ ds_pc' = "done"
           /\ UNCHANGED ds_i
    /\ UNCHANGED <<env, image_data, category, batch_outcome, pxVars, cbVars, fsVars, arVars,
                   callerVars>>

\* One turn of the loop of _generate_batch_fallback: generate_catalog_entry for
\* descriptor ds_i (one single-item request), append or skip, and return after
\* the last descriptor.
ItemRequest ==
    /\ ds_pc = "fallback"
    /\ \E r \in env.item : \E prices \in Prices(env.draws) :
        LET alt_text == AltOf(image_data[ds_i])
            got == generate_catalog_entry(alt_text, category, ds_i, r, prices,
                                          ds_i, price_calls + 1)
            content == generate_product_content(alt_text, r)
            entries == IF got.raised THEN ds_entries ELSE Append(ds_entries, got.value)
        IN /\ ds_requests' = Append(ds_requests, Request("item", ds_i, r.kind))
           /\ last_item' = [alt |-> alt_text, resp |-> r, content |-> content.value,
                            raised |-> content.raised]
           /\ price_calls' = IF got.raised THEN price_calls ELSE price_calls + 1
           /\ ds_entries' = entries
           /\ IF ds_i = Len(image_data)
              THEN /\ ds_result' = entries
                   /\ ds_pc' = "done"
                   /\ UNCHANGED ds_i
              ELSE /\ ds_i' = ds_i + 1
                   /\ UNCHANGED <<ds_result, ds_pc>>
    /\ UNCHANGED <<env, image_data, category, batch_outcome, pxVars, cbVars, fsVars, arVars, callerVars>>


(***************************************************************************)
(* pexels_client.py: get_images_for_theme as a state machine               *)
(***************************************************************************)
Descriptor(id, has_alt, alt) == [id |-> id, has_alt |-> has_alt, alt |-> alt]

\* The k-th photo of a page of search results.  Its alt text is the upstream's
\* business: empty, short or longer than a title.
Photo(p, k) ==
    Descriptor(<<p, k>>, TRUE,
               IF k % 3 = 0 THEN <<>>
               ELSE IF k % 3 = 1 THEN Txt("a", 30)
               ELSE Txt("a", TitleMax + 10))

\* How many photos the upstream e may put on page p: anything up to
\* MaxPhotosPerPage ("any"), or what is left of e.total photos served in full
\* pages of PerPage ("paged").
PageSizes(e, p) ==
    IF e.search = "any" THEN 0..MaxPhotosPerPage
    ELSE {Min(PerPage, Max(0, e.total - (p - 1) * PerPage))}

\* Variant: sampling with replacement (random.choices).
SeqsWithRepeats(S, k) == [1..k -> S]

\* random.sample(population, k): k positions, none twice, in any order
InjectiveSeqs(S, k) == {f \in [1..k -> S] : \A i, j \in 1..k : i # j => f[i] # f[j]}

\* while len(all_images) < max_images
LoopRuns == px_pc = "loop" /\ Len(all_images) < max_images

\* Variant: a failed request empties the pool.
SearchPage_pool_dropped ==
    /\ LoopRuns
    /\ searches' = Append(searches, page)
    /\ \/ /\ px_pc' = "select"
          /\ all_images' = <<>>
          /\ UNCHANGED page
       \/ \E c \in PageSizes(env, page) :
            LET photos == [k \in 1..c |-> Photo(page, k)]
            IN IF photos = <<>>
               THEN /\ px_pc' = "select"
                    /\ UNCHANGED <<all_images, page>>
               ELSE /\ all_images' = all_images \o photos
                    /\ page' = page + 1
                    /\ px_pc' = IF page + 1 > PageLimit THEN "select" ELSE "loop"
    /\ UNCHANGED <<env, dsVars, theme, min_images, max_images, selected_images, sample_pos,
                   cbVars, fsVars, arVars, callerVars>>

\* One turn of the pagination loop: search_images for the next page, then
\* break on a RequestException, on an empty page or past the page limit.
SearchPage ==
    /\ LoopRuns
    /\ searches' = Append(searches, page)
    /\ \/ /\ px_pc' = "select"                       \* except requests.RequestException
          /\ UNCHANGED <<all_images, page>>
       \/ \E c \in PageSizes(env, page) :
            LET photos == [k \in 1..c |-> Photo(page, k)]
            IN IF photos = <<>>
               THEN /\ px_pc' = "select"
                    /\ UNCHANGED <<all_images, page>>
               ELSE /\ all_images' = all_images \o photos
                    /\ page' = page + 1
                    /\ px_pc' = IF page + 1 > PageLimit THEN "select" ELSE "loop"
    /\ UNCHANGED <<env, dsVars, theme, min_images, max_images, selected_images, sample_pos,
                   cbVars, fsVars, arVars, callerVars>>

\* After the loop: return the whole pool, or random.sample of a random size.
SelectImages ==
    /\ px_pc = "select" \/ (px_pc = "loop" /\ ~LoopRuns)
    /\ LET max_selectable == Min(max_images, Len(all_images))
       IN IF max_selectable < min_images
          THEN /\ selected_images' = all_images
               /\ sample_pos' = [i \in 1..Len(all_images) |-> i]
          ELSE \E num_to_select \in min_images..max_selectable :
                 \E pos \in InjectiveSeqs(1..Len(all_images), num_to_select) :
                    /\ selected_images' = [i \in 1..num_to_select |-> all_images[pos[i]]]
                    /\ sample_pos' = pos
    /\ px_pc' = "done"
    /\ UNCHANGED <<env, dsVars, theme, min_images, max_images, all_images, page, searches,
                   cbVars, fsVars, arVars, callerVars>>

PexelsIdle ==
    /\ theme = SHOP_THEMES[1]
    /\ min_images = DefaultMin
    /\ max_images = DefaultMax
    /\ px_pc = "idle"
    /\ all_images = <<>>
    /\ page = 1
    /\ searches = <<>>
    /\ selected_images = <<>>
    /\ sample_pos = <<>>

(***************************************************************************)
(* catalog_builder.py: build_catalog as a state machine                    *)
(***************************************************************************)
NoFile == [exists |-> FALSE, rows |-> <<>>]

\* f"{i}-1.jpg"
File(sub, stem, ext) == [sub |-> sub, stem |-> stem, ext |-> ext]

FileName(i) == File("", ToString(i) \o "-1", "jpg")

\* One CSV row: the columns of fieldnames.
CsvRow(e) == [id |-> e.id, title_en |-> e.title_en, description_en |-> e.description_en,
              category |-> e.category, old_price |-> e.old_price, new_price |-> e.new_price]

\* _save_csv_catalog: nothing is written for an empty list.
save_csv_catalog(entries, file) ==
    IF entries = <<>> THEN file
    ELSE [exists |-> TRUE, rows |-> [k \in 1..Len(entries) |-> CsvRow(entries[k])]]

\* Variant: every call is given all the images.
BatchImages_all(imgs, i) == imgs

\* images[i:i + batch_size], i counted from 0
BatchImages(imgs, i) == SubSeq(imgs, i + 1, Min(i + BatchSize, Len(imgs)))

NoImagesError == "No images found for the selected theme"

DownloadFailures == Cardinality({k \in 1..Len(downloads) : ~downloads[k].ok})

\* os.makedirs(output_dir), the theme, and the call of get_images_for_theme
\* with its default bounds.
StartBuild ==
    /\ cb_pc = "start"
    /\ out_dir' = TRUE
    /\ theme' \in select_random_theme
    /\ min_images' = DefaultMin
    /\ max_images' = DefaultMax
    /\ px_pc' = "loop"
    /\ all_images' = <<>>
    /\ page' = 1
    /\ cb_pc' = "fetching"
    /\ UNCHANGED <<env, dsVars, searches, selected_images, sample_pos, images,
                   catalog_entries, cb_i, dl_i, downloads, cb_error,
                   images_dir, image_files, csv, arVars, callerVars>>

\* Variant: the check for an empty image list is missing.
ImagesFetched_unchecked ==
    /\ cb_pc = "fetching"
    /\ px_pc = "done"
    /\ images' = selected_images
    /\ px_pc' = "idle"
    /\ cb_pc' = IF selected_images = <<>> THEN "downloads" ELSE "batches"
    /\ cb_i' = 0
    /\ catalog_entries' = <<>>
    /\ UNCHANGED <<env, dsVars, theme, min_images, max_images, all_images, page, searches,
                   selected_images, sample_pos, dl_i, downloads, cb_error, fsVars, arVars, callerVars>>

\* get_images_for_theme has returned: raise on an empty list, else enter the
\* batch loop.
ImagesFetched ==
    /\ cb_pc = "fetching"
    /\ px_pc = "done"
    /\ images' = selected_images
    /\ px_pc' = "idle"
    /\ IF selected_images = <<>>
       THEN /\ cb_pc' = "raised"
            /\ cb_error' = NoImagesError
       ELSE /\ cb_pc' = "batches"
            /\ UNCHANGED cb_error
    /\ cb_i' = 0
    /\ catalog_entries' = <<>>
    /\ UNCHANGED <<env, dsVars, theme, min_images, max_images, all_images, page, searches,
                   selected_images, sample_pos, dl_i, downloads, fsVars, arVars, callerVars>>

\* One turn of the batch loop begins: generate_batch_catalog_entries is called
\* with the next BatchSize images.
StartBatch ==
    /\ cb_pc = "batches"
    /\ cb_i < Len(images)
    /\ image_data' = BatchImages(images, cb_i)
    /\ category' = theme
    /\ ds_pc' = "call"
    /\ ds_i' = 0
    /\ ds_entries' = <<>>
    /\ ds_result' = <<>>
    /\ batch_outcome' = "none"
    /\ cb_pc' = "in_batch"
    /\ UNCHANGED <<env, ds_requests, last_item, price_calls, pxVars, images,
                   catalog_entries, cb_i, dl_i, downloads, cb_error, fsVars, arVars, callerVars>>

\* generate_batch_catalog_entries has returned: extend catalog_entries, and
\* after the last batch os.makedirs(images_dir) and enter the download loop.
EndBatch ==
    /\ cb_pc = "in_batch"
    /\ ds_pc = "done"
    /\ catalog_entries' = catalog_entries \o ds_result
    /\ cb_i' = cb_i + BatchSize
    /\ ds_pc' = "idle"
    /\ IF cb_i + BatchSize < Len(images)
       THEN /\ cb_pc' = "batches"
            /\ UNCHANGED <<images_dir, dl_i>>
       ELSE /\ cb_pc' = "downloads"
            /\ images_dir' = TRUE
            /\ dl_i' = 1
    /\ UNCHANGED <<env, image_data, category, ds_i, ds_entries, ds_result, ds_requests,
                   batch_outcome, last_item, price_calls, pxVars, images, downloads,
                   cb_error, out_dir, image_files, csv, arVars, callerVars>>

\* Variant: a failed download ends the loop (break instead of continue).
DownloadImage_break ==
    /\ cb_pc = "downloads"
    /\ dl_i <= Len(images)
    /\ \E ok \in {b \in BOOLEAN : b \/ DownloadFailures < MaxDownloadFailures} :
        /\ downloads' = Append(downloads, [pos |-> dl_i, ok |-> ok])
        /\ image_files' = IF ok THEN image_files \cup {FileName(dl_i)} ELSE image_files
        /\ dl_i' = IF ok THEN dl_i + 1 ELSE Len(images) + 1
    /\ UNCHANGED <<env, dsVars, pxVars, cb_pc, images, catalog_entries, cb_i, cb_error,
                   out_dir, images_dir, csv, arVars, callerVars>>

\* One turn of the download loop: download_image writes the file only after
\* the request succeeded; a failure is caught and the loop goes on.
DownloadImage ==
    /\ cb_pc = "downloads"
    /\ dl_i <= Len(images)
    /\ \E ok \in {b \in BOOLEAN : b \/ DownloadFailures < MaxDownloadFailures} :
        /\ downloads' = Append(downloads, [pos |-> dl_i, ok |-> ok])
        /\ image_files' = IF ok THEN image_files \cup {FileName(dl_i)} ELSE image_files
    /\ dl_i' = dl_i + 1
    /\ UNCHANGED <<env, dsVars, pxVars, cb_pc, images, catalog_entries, cb_i, cb_error,
                   out_dir, images_dir, csv, arVars, callerVars>>

\* After the download loop: _save_csv_catalog and return output_dir.
SaveCsv ==
    /\ cb_pc = "downloads"
    /\ dl_i > Len(images)
    /\ csv' = save_csv_catalog(catalog_entries, csv)
    /\ cb_pc' = "returned"
    /\ UNCHANGED <<env, dsVars, pxVars, images, catalog_entries, cb_i, dl_i, downloads,
                   cb_error, out_dir, images_dir, image_files, arVars, callerVars>>

BuilderIdle ==
    /\ cb_pc = "idle"
    /\ images = <<>>
    /\ catalog_entries = <<>>
    /\ cb_i = 0
    /\ dl_i = 0
    /\ downloads = <<>>
    /\ cb_error = ""

(***************************************************************************)
(* archive_service.py                                                      *)
(***************************************************************************)
\* What is at a path: nothing, a ZIP archive with its member names in order, a
\* file that is no ZIP archive, or something that cannot be opened as a file.
Absent == [kind |-> "absent", members |-> <<>>]
NotZip == [kind |-> "not_zip", members |-> <<>>]
Unreadable == [kind |-> "unreadable", members |-> <<>>]
Zip(members) == [kind |-> "zip", members |-> members]

\* A member name: dir is what precedes the last '/', "" for none.
Member(dir, stem, ext) == [dir |-> dir, stem |-> stem, ext |-> ext]
CsvMember == Member("", "catalog", "csv")

\* str.lower() on the extensions that occur
Lower(x) ==
    CASE x = "JPG" -> "jpg"
      [] x = "PNG" -> "png"
      [] x = "Jpeg" -> "jpeg"
      [] OTHER -> x

\* name.lower().endswith(('.jpg', '.jpeg', '.png'))
HasImageExtension(f) == Lower(f.ext) \in {"jpg", "jpeg", "png"}

\* f.startswith("images/")
UnderImages(m) == m.dir \in {"images", "images/sub"}

\* Variant: only the files directly in the images directory are listed.
WalkOrders_top_only(files) ==
    LET found == {f \in files : HasImageExtension(f) /\ f.sub = ""}
    IN InjectiveSeqs(found, Cardinality(found))

\* The orders in which os.walk may list the image files of the images directory.
WalkOrders(files) ==
    LET found == {f \in files : HasImageExtension(f)}
    IN InjectiveSeqs(found, Cardinality(found))

\* arcname = os.path.join("images", file): the subdirectory is dropped.
ArcName(f) == Member("images", f.stem, f.ext)

\* The first of the three checks that fails ("" when none does).
MissingArtifact ==
    IF ~out_dir THEN "Source directory does not exist"
    ELSE IF ~csv.exists THEN "catalog.csv not found in source directory"
    ELSE IF ~images_dir THEN "images directory not found in source directory"
    ELSE ""

NoReport == [valid |-> FALSE, error |-> "not validated"]

\* {"valid": False, "error": msg}
ErrorReport(msg) == [valid |-> FALSE, error |-> msg]

\* Variant: an archive with the CSV is valid whether or not it has images.
validate_archive_csv_only(a) ==
    IF a.kind = "absent" THEN ErrorReport("Archive file does not exist")
    ELSE IF a.kind = "not_zip" THEN ErrorReport("Invalid ZIP file")
    ELSE IF a.kind = "unreadable" THEN ErrorReport("os error")
    ELSE LET file_list == a.members
             has_csv == \E k \in DOMAIN file_list : file_list[k] = CsvMember
             n == Cardinality({k \in DOMAIN file_list :
                                  UnderImages(file_list[k]) /\ HasImageExtension(file_list[k])})
         IN [valid |-> has_csv, has_csv |-> has_csv, image_count |-> n,
             total_files |-> Len(file_list),
             file_list |-> SubSeq(file_list, 1, Min(10, Len(file_list)))]

\* validate_archive, given what is at archive_path
validate_archive(a) ==
    IF a.kind = "absent" THEN ErrorReport("Archive file does not exist")
    ELSE IF a.kind = "not_zip" THEN ErrorReport("Invalid ZIP file")      \* BadZipFile
    ELSE IF a.kind = "unreadable" THEN ErrorReport("os error")           \* str(e)
    ELSE LET file_list == a.members
             has_csv == \E k \in DOMAIN file_list : file_list[k] = CsvMember
             image_files_in == {k \in DOMAIN file_list :
                                   UnderImages(file_list[k]) /\ HasImageExtension(file_list[k])}
         IN [valid |-> has_csv /\ Cardinality(image_files_in) > 0,
             has_csv |-> has_csv,
             image_count |-> Cardinality(image_files_in),
             total_files |-> Len(file_list),
             file_list |-> SubSeq(file_list, 1, Min(10, Len(file_list)))]

\* Variant: the archive is opened for writing before the checks.
CreateArchive_open_first ==
    /\ ar_pc = "create"
    /\ IF MissingArtifact # ""
       THEN /\ ar_pc' = "raised"
            /\ ar_error' = MissingArtifact
            /\ archive' = Zip(<<>>)
            /\ UNCHANGED ar_created
       ELSE \E order \in WalkOrders(image_files) :
              /\ archive' = Zip(<<CsvMember>> \o [k \in 1..Len(order) |-> ArcName(order[k])])
              /\ ar_created' = TRUE
              /\ ar_pc' = "validate"
              /\ UNCHANGED ar_error
    /\ UNCHANGED <<env, dsVars, pxVars, cbVars, fsVars, report, callerVars>>

\* create_catalog_archive(source_dir, archive_name)
CreateArchive ==
    /\ ar_pc = "create"
    /\ IF MissingArtifact # ""
       THEN /\ ar_pc' = "raised"                     \* ValueError
            /\ ar_error' = MissingArtifact
            /\ UNCHANGED <<archive, ar_created>>
       ELSE IF archive.kind = "unreadable"
       THEN /\ ar_pc' = "raised"                     \* ZipFile(archive_path, 'w'): OSError
            /\ ar_error' = "os error"
            /\ UNCHANGED <<archive, ar_created>>
       ELSE \E order \in WalkOrders(image_files) :
              /\ archive' = Zip(<<CsvMember>> \o [k \in 1..Len(order) |-> ArcName(order[k])])
              /\ ar_created' = TRUE
              /\ ar_pc' = "validate"
              /\ UNCHANGED ar_error
    /\ UNCHANGED <<env, dsVars, pxVars, cbVars, fsVars, report, callerVars>>

\* validate_archive(archive_path)
ValidateArchive ==
    /\ ar_pc = "validate"
    /\ report' = validate_archive(archive)
    /\ ar_pc' = "validated"
    /\ UNCHANGED <<env, dsVars, pxVars, cbVars, fsVars, archive, ar_created, ar_error,
                   callerVars>>

ArchiveIdle ==
    /\ archive = Absent
    /\ ar_pc = "idle"
    /\ ar_created = FALSE
    /\ ar_error = ""
    /\ report = NoReport

(***************************************************************************)
(* build_catalog from an empty output directory                            *)
(***************************************************************************)
NoOutput ==
    /\ out_dir = FALSE
    /\ images_dir = FALSE
    /\ image_files = {}
    /\ csv = NoFile
    /\ ArchiveIdle

\* The content API and the random source behave one way during a run; the
\* search upstream serves e.total photos in pages of PerPage.
BuildEnv(kinds, shapes, item, total) ==
    [kinds |-> kinds, shapes |-> shapes, item |-> item, draws |-> {MaxCents},
     search |-> "paged", total |-> total]

BuildEnvs ==
    UNION { { BuildEnv({"list"}, {"full"}, {}, t),
              BuildEnv({"list"}, {"non_dict"}, {ItemResponse("json_dict", TRUE, TRUE, <<>>)}, t),
              BuildEnv({"transport_error"}, {}, {ItemResponse("transport_error", FALSE, FALSE, <<>>)}, t),
              BuildEnv({"http_error"}, {}, {ItemResponse("json_other", FALSE, FALSE, <<>>)}, t),
              BuildEnv({"not_json"}, {}, {ItemResponse("text", FALSE, FALSE, <<OtherLine>>)}, t),
              BuildEnv({"short_list", "long_list"}, {},
                       {ItemResponse("json_dict", FALSE, FALSE, <<>>)}, t),
              BuildEnv({"not_list", "bad_body"}, {}, {ItemResponse("bad_body", FALSE, FALSE, <<>>)}, t) }
            : t \in 0..MaxImages }

InitBuild ==
    /\ CallerIdle
    /\ env \in BuildEnvs
    /\ DeepSeekIdle
    /\ PexelsIdle
    /\ cb_pc = "start"
    /\ images = <<>>
    /\ catalog_entries = <<>>
    /\ cb_i = 0
    /\ dl_i = 0
    /\ downloads = <<>>
    /\ cb_error = ""
    /\ NoOutput

NextBuild ==
    \/ StartBuild
    \/ SearchPage
    \/ SelectImages
    \/ ImagesFetched
    \/ StartBatch
    \/ BatchRequest
    \/ ItemRequest
    \/ EndBatch
    \/ DownloadImage
    \/ SaveCsv

SpecBuild == InitBuild /\ [][NextBuild]_vars

(***************************************************************************)
(* The archive service on any catalog directory and any archive path       *)
(***************************************************************************)
SomeFiles ==
    { File("", "1-1", "jpg"), File("", "2-1", "jpg"), File("", "photo", "JPG"),
      File("", "scan", "Jpeg"), File("", "logo", "png"), File("", "notes", "txt"),
      File("thumbs", "1-1", "jpg") }

SomeMembers ==
    { CsvMember, Member("images", "1-1", "jpg"), Member("images", "notes", "txt"),
      Member("", "1-1", "jpg"), Member("other", "logo", "png"),
      Member("images/sub", "photo", "JPG"), Member("images", "catalog", "csv") }

SomeFile == [exists |-> TRUE, rows |-> <<>>]

\* Directories as they can exist: no catalog.csv or images directory without
\* the output directory, no image file without the images directory.
InitArchive ==
    /\ CallerIdle
    /\ env = [kinds |-> {}, shapes |-> {}, item |-> {}, draws |-> {},
              search |-> "any", total |-> 0]
    /\ DeepSeekIdle
    /\ PexelsIdle
    /\ BuilderIdle
    /\ out_dir \in BOOLEAN
    /\ csv \in IF out_dir THEN {NoFile, SomeFile} ELSE {NoFile}
    /\ images_dir \in IF out_dir THEN BOOLEAN ELSE {FALSE}
    /\ image_files \in IF images_dir
                       THEN {S \in SUBSET SomeFiles : Cardinality(S) <= MaxFiles}
                       ELSE {{}}
    /\ archive \in {Absent, NotZip, Unreadable}
                   \cup {Zip(m) : m \in UNION {[1..n -> SomeMembers] : n \in 0..MaxMembers}}
    /\ ar_pc \in {"create", "validate"}
    /\ ar_created = FALSE
    /\ ar_error = ""
    /\ report = NoReport

NextArchive == CreateArchive \/ ValidateArchive

SpecArchive == InitArchive /\ [][NextArchive]_vars

(***************************************************************************)
(* main.py: one run of the command line program                            *)
(***************************************************************************)
\* Lines 20-26 and the call of build_catalog: a missing key raises ValueError
\* before the try statement is entered.
MainStart ==
    /\ main_pc = "start"
    /\ IF ~keys.pexels \/ ~keys.deepseek
       THEN /\ main_pc' = "raised"
            /\ UNCHANGED cb_pc
       ELSE /\ main_pc' = "build"
            /\ cb_pc' = "start"
    /\ UNCHANGED <<env, dsVars, pxVars, images, catalog_entries, cb_i, dl_i, downloads,
                   cb_error, fsVars, arVars, keys, exit_code, webVars>>

\* build_catalog has returned or raised: go on to create_catalog_archive, or
\* return 1 from the except clause.
MainBuilt ==
    /\ main_pc = "build"
    /\ cb_pc \in {"returned", "raised"}
    /\ IF cb_pc = "raised"
       THEN /\ main_pc' = "returned"
            /\ exit_code' = 1
            /\ UNCHANGED ar_pc
       ELSE /\ main_pc' = "archive"
            /\ ar_pc' = "create"
            /\ UNCHANGED exit_code
    /\ UNCHANGED <<env, dsVars, pxVars, cbVars, fsVars, archive, ar_created, ar_error,
                   report, keys, webVars>>

\* Variant: the validation report is not looked at.
MainEnd_report_unread ==
    /\ main_pc = "archive"
    /\ ar_pc \in {"raised", "validated"}
    /\ exit_code' = IF ar_pc = "validated" THEN 0 ELSE 1
    /\ main_pc' = "returned"
    /\ UNCHANGED <<env, dsVars, pxVars, cbVars, fsVars, arVars, keys, webVars>>

\* create_catalog_archive has raised, or validate_archive has returned its
\* report: return 1 from the except clause or on an invalid archive, else 0.
MainEnd ==
    /\ main_pc = "archive"
    /\ ar_pc \in {"raised", "validated"}
    /\ exit_code' = IF ar_pc = "validated" /\ report.valid THEN 0 ELSE 1
    /\ main_pc' = "returned"
    /\ UNCHANGED <<env, dsVars, pxVars, cbVars, fsVars, arVars, keys, webVars>>

MainEnvs == {e \in BuildEnvs : e.total <= MaxMainImages}

InitMain ==
    /\ env \in MainEnvs
    /\ keys \in [pexels : BOOLEAN, deepseek : BOOLEAN]
    /\ main_pc = "start"
    /\ exit_code = -1
    /\ WebIdle
    /\ DeepSeekIdle
    /\ PexelsIdle
    /\ BuilderIdle
    /\ out_dir = FALSE
    /\ images_dir = FALSE
    /\ image_files = {}
    /\ csv = NoFile
    /\ archive \in {Absent, NotZip, Unreadable}
    /\ ar_pc = "idle"
    /\ ar_created = FALSE
    /\ ar_error = ""
    /\ report = NoReport

NextMain ==
    \/ MainStart
    \/ StartBuild
    \/ SearchPage
    \/ SelectImages
    \/ ImagesFetched
    \/ StartBatch
    \/ BatchRequest
    \/ ItemRequest
    \/ EndBatch
    \/ DownloadImage
    \/ SaveCsv
    \/ MainBuilt
    \/ CreateArchive
    \/ ValidateArchive
    \/ MainEnd

SpecMain == InitMain /\ [][NextMain]_vars

(***************************************************************************)
(* web_server.py: generation threads and the progress stream               *)
(***************************************************************************)
\* The web server touches none of these.
pipelineVars == <<env, dsVars, pxVars, cbVars, fsVars, arVars, mainVars>>

Runs == DOMAIN threads

\* A message of the progress record: which f-string, and what it was filled with.
Msg(tag, text, x, y) == [tag |-> tag, text |-> text, x |-> x, y |-> y]

\* progress_store.update(d), progress_store[k] = v
Updated(store, d) == d @@ store

\* (len(images) + batch_size - 1) // batch_size
TotalBatches(n) == (n + BatchSize - 1) \div BatchSize

\* len(images[i:i + batch_size]) for batch number b
BatchLen(n, b) == Min(BatchSize, n - BatchSize * (b - 1))

PendingBatch(number) == [number |-> number, status |-> "pending", images |-> 0, time |-> 0]

\* progress_store['batches'][batch_num-1] of the record as it is now: the
\* exception the subscript raises ("" when it raises none).
BatchSlotError(store, b) ==
    IF "batches" \notin DOMAIN store THEN "KeyError: 'batches'"
    ELSE IF Len(store.batches) < b THEN "IndexError: list index out of range"
    ELSE ""

Goto(r, pc) == [threads EXCEPT ![r].pc = pc]

Fail(r, error) == [threads EXCEPT ![r].pc = "except", ![r].error = error]

\* handle_generate_catalog: without both keys answer 500, else start the
\* thread that runs _generate_catalog_async and answer at once.
HandleGenerateCatalog ==
    \E r \in Runs :
    /\ threads[r].pc = "idle"
    /\ \A q \in Runs : q < r => threads[q].pc # "idle"
    /\ threads' = Goto(r, IF keys.pexels /\ keys.deepseek THEN "clear" ELSE "rejected")
    /\ UNCHANGED <<pipelineVars, progress_store, web_env, written, sse_sent>>

\* line 110: progress_store.clear()
ClearProgress ==
    \E r \in Runs :
    /\ threads[r].pc = "clear"
    /\ progress_store' = EmptyDict
    /\ threads' = Goto(r, "init")
    /\ UNCHANGED <<pipelineVars, web_env, written, sse_sent>>

\* lines 111-124: progress_store.update({...}), os.makedirs(output_dir)
InitProgress ==
    \E r \in Runs :
    /\ threads[r].pc = "init"
    /\ progress_store' =
          Updated(progress_store,
                  [status |-> "initializing", message |-> Msg("Starting", "", 0, 0),
                   theme |-> "", total_images |-> 0, batches |-> <<>>, current_batch |-> 0,
                   total_batches |-> 0, completed_batches |-> 0, downloaded_images |-> 0])
    /\ written' = Append(written, "initializing")
    /\ threads' = [threads EXCEPT ![r].pc = "theme", ![r].dir = TRUE]
    /\ UNCHANGED <<pipelineVars, web_env, sse_sent>>

\* lines 127-131
SelectTheme ==
    \E r \in Runs :
    /\ threads[r].pc = "theme"
    /\ \E t \in select_random_theme :
        /\ progress_store' =
              Updated(progress_store,
                      [theme |-> t, status |-> "fetching_images",
                       message |-> Msg("Selected theme", t, 0, 0)])
        /\ threads' = [threads EXCEPT ![r].pc = "fetch", ![r].theme = t]
    /\ written' = Append(written, "fetching_images")
    /\ UNCHANGED <<pipelineVars, web_env, sse_sent>>

\* lines 134-140: get_images_for_theme returns n images; none raises ValueError
FetchImages ==
    \E r \in Runs :
    /\ threads[r].pc = "fetch"
    /\ \E n \in web_env.counts :
        /\ progress_store' =
              Updated(progress_store,
                      [total_images |-> n,
                       message |-> Msg("Fetched", threads[r].theme, n, 0)])
        /\ threads' = IF n = 0
                      THEN [Fail(r, NoImagesError) EXCEPT ![r].n = n]
                      ELSE [threads EXCEPT ![r].pc = "batches", ![r].n = n]
    /\ UNCHANGED <<pipelineVars, web_env, written, sse_sent>>

\* lines 143-151
StageBatches ==
    \E r \in Runs :
    /\ threads[r].pc = "batches"
    /\ LET total_batches == TotalBatches(threads[r].n)
       IN progress_store' =
             Updated(progress_store,
                     [status |-> "processing_batches",
                      message |-> Msg("Generating", "", 0, 0),
                      total_batches |-> total_batches,
                      batches |-> [k \in 1..total_batches |-> PendingBatch(k)]])
    /\ written' = Append(written, "processing_batches")
    /\ threads' = [threads EXCEPT ![r].pc = "batch_begin", ![r].b = 1, ![r].entries = 0]
    /\ UNCHANGED <<pipelineVars, web_env, sse_sent>>

\* lines 154-163: the writes before the batch call; the subscripts of lines
\* 159-160 raise when the record holds no such batch.
BatchBegin ==
    \E r \in Runs :
    /\ threads[r].pc = "batch_begin"
    /\ LET b == threads[r].b
           n == threads[r].n
           store == Updated(progress_store, [current_batch |-> b])
           error == BatchSlotError(store, b)
       IN IF error # ""
          THEN /\ progress_store' = store
               /\ threads' = Fail(r, error)
          ELSE /\ progress_store' =
                     Updated(store,
                             [batches |-> [store.batches EXCEPT
                                              ![b].status = "processing",
                                              ![b].images = BatchLen(n, b)],
                              message |-> Msg("Processing batch", "", b, TotalBatches(n))])
               /\ threads' = Goto(r, "batch_end")
    /\ UNCHANGED <<pipelineVars, web_env, written, sse_sent>>

\* lines 166-180: generate_batch_catalog_entries returns one entry per image
\* of the batch; then the writes after the call.
BatchEnd ==
    \E r \in Runs :
    /\ threads[r].pc = "batch_end"
    /\ LET b == threads[r].b
           n == threads[r].n
           entries == threads[r].entries + BatchLen(n, b)
           error == BatchSlotError(progress_store, b)
       IN IF error # ""
          THEN /\ threads' = [Fail(r, error) EXCEPT ![r].entries = entries]
               /\ UNCHANGED progress_store
          ELSE /\ progress_store' =
                     Updated(progress_store,
                             [batches |-> [progress_store.batches EXCEPT
                                              ![b].status = "completed", ![b].time = 1],
                              completed_batches |-> b,
                              message |-> Msg("Completed batch", "", b, TotalBatches(n))])
               /\ threads' = IF b < TotalBatches(n)
                             THEN [threads EXCEPT ![r].entries = entries, ![r].b = b + 1,
                                                  ![r].pc = "batch_begin"]
                             ELSE [threads EXCEPT ![r].entries = entries,
                                                  ![r].pc = "stage_download"]
    /\ UNCHANGED <<pipelineVars, web_env, written, sse_sent>>

\* lines 183-186
StageDownload ==
    \E r \in Runs :
    /\ threads[r].pc = "stage_download"
    /\ progress_store' =
          Updated(progress_store,
                  [status |-> "downloading_images",
                   message |-> Msg("Downloading", "", threads[r].n, 0)])
    /\ written' = Append(written, "downloading_images")
    /\ threads' = [threads EXCEPT ![r].pc = "download", ![r].i = 1, ![r].images_dir = TRUE]
    /\ UNCHANGED <<pipelineVars, web_env, sse_sent>>

\* lines 188-203, one turn of the loop: a download that fails is skipped.  Of
\* the image files only their number is kept.
DownloadOne ==
    \E r \in Runs :
    /\ threads[r].pc = "download"
    /\ LET i == threads[r].i
           n == threads[r].n
           next == IF i < n THEN [threads EXCEPT ![r].i = i + 1]
                   ELSE Goto(r, "stage_archive")
       IN \/ /\ progress_store' =
                   Updated(progress_store,
                           [downloaded_images |-> i, message |-> Msg("Downloaded", "", i, n)])
             /\ threads' = [next EXCEPT ![r].files = @ + 1]
          \/ /\ threads[r].failures < web_env.failures
             /\ threads' = [next EXCEPT ![r].failures = @ + 1]
             /\ UNCHANGED progress_store
    /\ UNCHANGED <<pipelineVars, web_env, written, sse_sent>>

\* lines 206-209: the status is set, then _save_csv_catalog writes the rows
\* (no file for an empty list).
StageArchive ==
    \E r \in Runs :
    /\ threads[r].pc = "stage_archive"
    /\ progress_store' =
          Updated(progress_store,
                  [status |-> "creating_archive", message |-> Msg("Creating", "", 0, 0)])
    /\ written' = Append(written, "creating_archive")
    /\ threads' = [threads EXCEPT ![r].pc = "completed",
                                  ![r].csv = IF threads[r].entries = 0 THEN @
                                             ELSE threads[r].entries]
    /\ UNCHANGED <<pipelineVars, web_env, sse_sent>>

\* lines 211-215: _build_catalog_with_progress returns
Completed ==
    \E r \in Runs :
    /\ threads[r].pc = "completed"
    /\ progress_store' =
          Updated(progress_store,
                  [status |-> "completed",
                   message |-> Msg("Catalog built", "", threads[r].entries, 0)])
    /\ written' = Append(written, "completed")
    /\ threads' = Goto(r, "archive")
    /\ UNCHANGED <<pipelineVars, web_env, sse_sent>>

\* The first of the checks of create_catalog_archive that fails for the
\* directory of thread t ("" when none does).
MissingWebArtifact(t) ==
    IF ~t.dir THEN "Source directory does not exist"
    ELSE IF t.csv < 0 THEN "catalog.csv not found in source directory"
    ELSE IF ~t.images_dir THEN "images directory not found in source directory"
    ELSE ""

\* lines 224-231: create_catalog_archive (which can fail as any file write
\* can), then the archive keys of the record.
CreateWebArchive ==
    \E r \in Runs :
    /\ threads[r].pc = "archive"
    /\ \/ /\ MissingWebArtifact(threads[r]) = ""
          /\ threads' = [threads EXCEPT ![r].pc = "done", ![r].archive = threads[r].files]
          /\ progress_store' =
                Updated(progress_store, [archive_url |-> r, archive_name |-> r])
       \/ /\ threads' = Fail(r, IF MissingWebArtifact(threads[r]) # ""
                                THEN MissingWebArtifact(threads[r]) ELSE "os error")
          /\ UNCHANGED progress_store
    /\ UNCHANGED <<pipelineVars, web_env, written, sse_sent>>

\* Variant: the except clause only prints.
HandleException_print_only ==
    \E r \in Runs :
    /\ threads[r].pc = "except"
    /\ threads' = Goto(r, "failed")
    /\ UNCHANGED <<pipelineVars, progress_store, web_env, written, sse_sent>>

\* lines 233-237: the except clause of _generate_catalog_async
HandleException ==
    \E r \in Runs :
    /\ threads[r].pc = "except"
    /\ progress_store' =
          Updated(progress_store,
                  [status |-> "error", message |-> Msg("Error", threads[r].error, 0, 0)])
    /\ written' = Append(written, "error")
    /\ threads' = Goto(r, "failed")
    /\ UNCHANGED <<pipelineVars, web_env, sse_sent>>

\* handle_progress_sse, one turn of its loop: a snapshot of the record is
\* sent unless the record is empty.
SendSnapshot ==
    /\ sse_sent' = IF DOMAIN progress_store = {} THEN sse_sent
                   ELSE sse_sent \cup {IF "status" \in DOMAIN progress_store
                                       THEN progress_store.status ELSE "no status"}
    /\ UNCHANGED <<pipelineVars, progress_store, threads, web_env, written>>

WebImageCounts ==
    {0, 1} \cup {BatchSize * k : k \in 1..(MaxWebBatches - 1)}
           \cup {BatchSize * (MaxWebBatches - 1) + 1}

InitWebCommon ==
    /\ env = [kinds |-> {}, shapes |-> {}, item |-> {}, draws |-> {},
              search |-> "any", total |-> 0]
    /\ DeepSeekIdle
    /\ PexelsIdle
    /\ BuilderIdle
    /\ NoOutput
    /\ main_pc = "idle"
    /\ exit_code = -1
    /\ keys \in [pexels : BOOLEAN, deepseek : BOOLEAN]
    /\ progress_store = EmptyDict
    /\ written = <<>>
    /\ sse_sent = {}

(***************************************************************************)
(* One generation request, and a reader of the progress stream             *)
(***************************************************************************)
InitWeb ==
    /\ InitWebCommon
    /\ threads = [r \in {1} |-> NoThread]
    /\ web_env = [counts |-> WebImageCounts, failures |-> MaxDownloadFailures]

NextWeb ==
    \/ HandleGenerateCatalog
    \/ ClearProgress
    \/ InitProgress
    \/ SelectTheme
    \/ FetchImages
    \/ StageBatches
    \/ BatchBegin
    \/ BatchEnd
    \/ StageDownload
    \/ DownloadOne
    \/ StageArchive
    \/ Completed
    \/ CreateWebArchive
    \/ HandleException
    \/ SendSnapshot

\* A started thread is scheduled until it ends.
ThreadRuns ==
    \/ ClearProgress
    \/ InitProgress
    \/ SelectTheme
    \/ FetchImages
    \/ StageBatches
    \/ BatchBegin
    \/ BatchEnd
    \/ StageDownload
    \/ DownloadOne
    \/ StageArchive
    \/ Completed
    \/ CreateWebArchive
    \/ HandleException

SpecWeb == InitWeb /\ [][NextWeb]_vars /\ WF_vars(ThreadRuns)

(***************************************************************************)
(* Two generation requests, the second while the first is under way        *)
(***************************************************************************)
InitWebRace ==
    /\ InitWebCommon
    /\ threads = [r \in {1, 2} |-> NoThread]
    /\ web_env = [counts |-> {1, BatchSize + 1}, failures |-> 0]

NextWebRace ==
    \/ HandleGenerateCatalog
    \/ ClearProgress
    \/ InitProgress
    \/ SelectTheme
    \/ FetchImages
    \/ StageBatches
    \/ BatchBegin
    \/ BatchEnd
    \/ StageDownload
    \/ DownloadOne
    \/ StageArchive
    \/ Completed
    \/ CreateWebArchive
    \/ HandleException

SpecWebRace == InitWebRace /\ [][NextWebRace]_vars

(***************************************************************************)
(* A free-standing call of generate_batch_catalog_entries                  *)
(***************************************************************************)

AltLens == {0, 1, TitleMax, TitleMax + 1, ExpandBelow - 1, ExpandBelow,
            DescFloor - 1, DescFloor, DescCap, DescCap + 1}

Descriptors == {Descriptor(<<0, 0>>, FALSE, <<>>)} \cup {Descriptor(<<0, 0>>, TRUE, Txt("a", n)) : n \in AltLens}
CoreDescriptors == {Descriptor(<<0, 0>>, FALSE, <<>>), Descriptor(<<0, 0>>, TRUE, Txt("a", TitleMax + 1))}

\* Every list of up to MaxBatch core descriptors, and every single descriptor.
BatchInputs ==
    UNION {[1..n -> CoreDescriptors] : n \in 0..MaxBatch} \cup {<<d>> : d \in Descriptors}

PriceDraws == (MinCents..(MinCents + PriceSpan)) \cup ((MaxCents - PriceSpan)..MaxCents)
CoreDraws == {MinCents + 5, MaxCents}

\* Upstream and random source unconstrained; the variety of single responses
\* and prices is kept for calls of at most one descriptor.
FreeEnv(n) ==
    [kinds |-> BatchKinds,
     shapes |-> IF n <= 1 THEN ItemShapes ELSE CoreShapes,
     item |-> IF n <= 1 THEN ItemResponses ELSE CoreItemResponses,
     draws |-> IF n <= 1 THEN PriceDraws ELSE CoreDraws,
     search |-> "any",
     total |-> 0]

InitDeepSeek ==
    /\ CallerIdle
    /\ image_data \in BatchInputs
    /\ category \in select_random_theme
    /\ env = FreeEnv(Len(image_data))
    /\ ds_pc = "call"
    /\ ds_i = 0
    /\ ds_entries = <<>>
    /\ ds_result = <<>>
    /\ ds_requests = <<>>
    /\ batch_outcome = "none"
    /\ last_item = NoItem
    /\ price_calls = 0
    /\ PexelsIdle
    /\ BuilderIdle
    /\ NoOutput

NextDeepSeek == EmptyCall \/ BatchRequest \/ ItemRequest

SpecDeepSeek == InitDeepSeek /\ [][NextDeepSeek]_vars

(***************************************************************************)
(* A free-standing call of get_images_for_theme                            *)
(***************************************************************************)
\* min_images <= max_images up to MaxWanted, and the defaults.
ImageBounds ==
    {p \in (0..MaxWanted) \X (0..MaxWanted) : p[1] <= p[2]}
    \cup {<<DefaultMin, DefaultMax>>}

InitPexels ==
    /\ CallerIdle
    /\ env = [kinds |-> {}, shapes |-> {}, item |-> {}, draws |-> {},
              search |-> "any", total |-> 0]
    /\ DeepSeekIdle
    /\ theme = SHOP_THEMES[1]
    /\ \E b \in ImageBounds : min_images = b[1] /\ max_images = b[2]
    /\ px_pc = "loop"
    /\ all_images = <<>>
    /\ page = 1
    /\ searches = <<>>
    /\ selected_images = <<>>
    /\ sample_pos = <<>>
    /\ BuilderIdle
    /\ NoOutput

NextPexels == SearchPage \/ SelectImages

SpecPexels == InitPexels /\ [][NextPexels]_vars

\* The call goes on until it returns: every request is answered or fails.
SpecPexelsFair == SpecPexels /\ WF_vars(NextPexels)

(***************************************************************************)
(* Claims about the content generator                                      *)
(***************************************************************************)
Range(f) == {f[i] : i \in DOMAIN f}

\* What an entry built from alt text a can carry as title and description.
TitlesFor(a) == {ApiTitle, <<>>, TTake(a, TitleMax)}
DescriptionsFor(a) ==
    {ApiDescription, a, TTake(IF TLen(a) < ExpandBelow THEN Expand(a) ELSE a, DescCap)}

\* C1: generate_batch_catalog_entries returns exactly one entry per descriptor,
\* the i-th entry built from the i-th descriptor, whatever the batch request
\* and the per-item requests do.
C1_OneEntryPerDescriptor ==
    ds_pc = "done" =>
        /\ Len(ds_result) = Len(image_data)
        /\ \A i \in 1..Len(ds_result) :
            /\ ds_result[i].src_pos = i
            /\ ds_result[i].category = category
            /\ ds_result[i].title_en \in TitlesFor(AltOf(image_data[i]))
            /\ ds_result[i].description_en \in DescriptionsFor(AltOf(image_data[i]))

\* C1 witness: a call for MaxBatch descriptors whose batch response had the
\* wrong length has returned after the per-item requests.
C1_Witness ==
    /\ ds_pc = "done"
    /\ Len(image_data) = MaxBatch
    /\ batch_outcome = "list_length"
    /\ Len(ds_requests) = MaxBatch + 1
    /\ Len(ds_result) = MaxBatch

AllEntries == Range(ds_result) \cup Range(ds_entries)

\* C6: every entry, from whichever path, has old_price within [100, 10000] and
\* new_price the nearest cent to 0.9 * old_price, so 0 < new_price < old_price;
\* its prices come from one generate_price call of its own.
C6_PriceInvariant ==
    /\ \A e \in AllEntries :
        /\ e.old_price \in MinCents..MaxCents
        /\ 10 * e.new_price - 9 * e.old_price \in -5..5
        /\ 0 < e.new_price /\ e.new_price < e.old_price
        /\ e.price_call \in 1..price_calls
    /\ \A i, j \in 1..Len(ds_result) :
        i # j => ds_result[i].price_call # ds_result[j].price_call

\* C6 witness: a returned entry whose content is the synthetic fallback carries
\* a price that had to be rounded up.
C6_Witness ==
    /\ ds_pc = "done"
    /\ batch_outcome = "transport_error"
    /\ \E i \in 1..Len(ds_result) :
        /\ ds_result[i].description_en
             = generate_fallback_content(AltOf(image_data[i])).description
        /\ ds_result[i].old_price = MinCents + 1
        /\ ds_result[i].new_price = 9001

HardFailure(r) == r.kind \in FailureKinds \cup {"json_other"}

LastIndex(S) == CHOOSE i \in S : \A j \in S : j <= i

C2_SampleSize ==
    px_pc = "done" =>
        LET P == Len(all_images)
            K == Len(selected_images)
        IN /\ P < min_images => selected_images = all_images
           /\ P >= min_images => (min_images <= K /\ K <= Min(max_images, P))
           /\ Len(sample_pos) = K
           /\ \A i \in 1..K :
                /\ sample_pos[i] \in 1..P
                /\ selected_images[i] = all_images[sample_pos[i]]
           /\ \A i, j \in 1..K : i # j => sample_pos[i] # sample_pos[j]

\* C2 witness: a pool larger than max_images was sampled down to a size
\* strictly between the bounds, out of pool order.
C2_Witness ==
    /\ px_pc = "done"
    /\ min_images = 1 /\ max_images = 3
    /\ Len(all_images) = 4
    /\ sample_pos = <<4, 1>>

(***************************************************************************)
(* Claims about the catalog assembler                                      *)
(***************************************************************************)
\* C3: build_catalog raises the no-images error exactly when the image list is
\* empty, and then no content request was issued, nothing was downloaded and no
\* catalog.csv was written; with a non-empty list it never raises and always
\* has a next step until it has returned.
C3_OnlyNoImagesFails ==
    /\ cb_pc = "raised" =>
        /\ images = <<>>
        /\ cb_error = NoImagesError
        /\ ds_requests = <<>>
        /\ downloads = <<>>
        /\ image_files = {}
        /\ csv = NoFile
    /\ cb_pc \in {"batches", "in_batch", "downloads", "returned"} => images # <<>>
    /\ cb_pc \notin {"raised", "returned"} => ENABLED NextBuild

\* C3 witness: the search failed on the first page although the upstream has
\* photos, and build_catalog raised.
C3_Witness ==
    /\ cb_pc = "raised"
    /\ env.total = MaxImages
    /\ searches = <<1>>
    /\ out_dir

\* C4: after build_catalog returned for N images, catalog.csv has N rows, every
\* image 1..N was attempted in order, and the images directory holds exactly
\* the files of the downloads that succeeded.
C4_RowsAndFiles ==
    cb_pc = "returned" =>
        LET N == Len(images)
        IN /\ csv.exists
           /\ Len(csv.rows) = N
           /\ Len(downloads) = N
           /\ \A k \in 1..N : downloads[k].pos = k
           /\ image_files = {FileName(k) : k \in {j \in 1..N : downloads[j].ok}}
           /\ Cardinality(image_files) = N - DownloadFailures

\* C4 witness: a run over more than one batch returned although the download
\* of image BatchSize failed; the last image is on disk.
C4_Witness ==
    /\ cb_pc = "returned"
    /\ Len(images) = BatchSize + 1
    /\ ~downloads[BatchSize].ok
    /\ FileName(BatchSize + 1) \in image_files
    /\ FileName(BatchSize) \notin image_files
    /\ csv.exists

\* C5: in a completed run over N images the CSV rows carry the ids 1..N in
\* order, so that the row with id k belongs to the image saved as '{k}-1.jpg'.
C5_IdsAreGlobal ==
    cb_pc = "returned" =>
        /\ Len(csv.rows) = Len(images)
        /\ \A k \in 1..Len(csv.rows) : csv.rows[k].id = k

(***************************************************************************)
(* Claims about the archive packager                                       *)
(***************************************************************************)
ImageFilesOfRun == {f \in image_files : HasImageExtension(f)}

\* How often member name m occurs in the archive.
Occurrences(m) == Cardinality({k \in DOMAIN archive.members : archive.members[k] = m})

\* C7: once create_catalog_archive has returned for a catalog directory, the
\* archive's members are 'catalog.csv' once plus one 'images/<filename>' for
\* each image file (.jpg/.jpeg/.png, any letter case) of the directory and
\* nothing else; and when there is at least one image file, validate_archive
\* of that archive reports valid, has_csv and image_count equal to the number
\* of image files.
C7_RoundTrip ==
    (ar_created /\ ar_pc \in {"validate", "validated"}) =>
        /\ archive.kind = "zip"
        /\ Len(archive.members) = 1 + Cardinality(ImageFilesOfRun)
        /\ Occurrences(CsvMember) = 1
        /\ \A f \in ImageFilesOfRun :
              Occurrences(Member("images", f.stem, f.ext)) =
                  Cardinality({g \in ImageFilesOfRun : g.stem = f.stem /\ g.ext = f.ext})
        /\ (ar_pc = "validated" /\ ImageFilesOfRun # {}) =>
              /\ report.valid
              /\ report.has_csv
              /\ report.image_count = Cardinality(ImageFilesOfRun)
              /\ "error" \notin DOMAIN report

C7_Witness ==
    /\ ar_created
    /\ ar_pc = "validated"
    /\ report.valid
    /\ report.image_count = 2
    /\ \E f \in image_files : f.sub # "" /\ HasImageExtension(f)
    /\ \E f \in image_files : f.ext = "JPG"
    /\ \E f \in image_files : ~HasImageExtension(f)

\* C8: validate_archive returns a report for whatever is at the path; valid
\* is true exactly when the path holds a well-formed archive that has the
\* member 'catalog.csv' and at least one member under 'images/' with an image
\* extension; a missing path and a malformed archive each give valid = false
\* with their own error message.
C8_ValidateReports ==
    /\ ar_pc = "validate" => ENABLED ValidateArchive
    /\ ar_pc = "validated" =>
          /\ report.valid \in BOOLEAN
          /\ report.valid <=>
                /\ archive.kind = "zip"
                /\ \E k \in DOMAIN archive.members : archive.members[k] = CsvMember
                /\ \E k \in DOMAIN archive.members :
                      /\ archive.members[k].dir \in {"images", "images/sub"}
                      /\ archive.members[k].ext \in {"jpg", "jpeg", "png", "JPG", "Jpeg", "PNG"}
          /\ archive.kind = "absent" =>
                report = [valid |-> FALSE, error |-> "Archive file does not exist"]
          /\ archive.kind = "not_zip" =>
                report = [valid |-> FALSE, error |-> "Invalid ZIP file"]

C8_Witness ==
    /\ ar_pc = "validated"
    /\ ~ar_created
    /\ archive.kind = "zip"
    /\ ~report.valid
    /\ report.has_csv
    /\ report.total_files = 2
    /\ \E k \in DOMAIN archive.members : archive.members[k] = Member("", "1-1", "jpg")

\* C9: when the source directory is missing, or has no catalog.csv, or has no
\* images directory, create_catalog_archive raises the error that names the
\* first missing item, and what is at the archive path and in the catalog
\* directory stays as it was.
C9_MissingArtifactFails ==
    [][(ar_pc = "create" /\ (~out_dir \/ ~csv.exists \/ ~images_dir)) =>
          /\ ar_pc' = "raised"
          /\ ar_error' = (IF ~out_dir THEN "Source directory does not exist"
                          ELSE IF ~csv.exists THEN "catalog.csv not found in source directory"
                          ELSE "images directory not found in source directory")
          /\ ar_created' = FALSE
          /\ archive' = archive
          /\ UNCHANGED fsVars]_vars

C9_Witness ==
    /\ ar_pc = "raised"
    /\ ar_error = "catalog.csv not found in source directory"
    /\ archive.kind = "zip"
    /\ Len(archive.members) = 2
    /\ image_files # {}

(***************************************************************************)
(* Claims about the content generator, continued                           *)
(***************************************************************************)
AllRequestsTimedOut ==
    /\ ds_requests # <<>>
    /\ \A k \in DOMAIN ds_requests : ds_requests[k].outcome = "transport_error"

\* C11 as stated: when every content-API request of a call fails at transport
\* level, the call returns one entry per descriptor, and the title of each is
\* the alt text cut to 50 characters and is not empty.
C11_FallbackTitleNonEmpty ==
    (ds_pc = "done" /\ AllRequestsTimedOut) =>
        /\ Len(ds_result) = Len(image_data)
        /\ \A i \in 1..Len(ds_result) :
            /\ ds_result[i].src_pos = i
            /\ ds_result[i].title_en = TTake(AltOf(image_data[i]), TitleMax)
            /\ TLen(ds_result[i].title_en) \in 1..TitleMax

(***************************************************************************)
(* Claims about the command line program                                   *)
(***************************************************************************)
KeysPresent == keys.pexels /\ keys.deepseek

MainFailed == main_pc = "raised" \/ (main_pc = "returned" /\ exit_code = 1)

\* C12 as stated: a run of main fails only when an API key is missing, when
\* no image was fetched, or when an input of the archive is missing.
C12_FailsOnlyOnPreconditions ==
    MainFailed =>
        \/ ~KeysPresent
        \/ (cb_pc = "raised" /\ images = <<>>)
        \/ (ar_pc = "raised" /\ MissingArtifact # "")

\* C12 amended: a run of main fails only when an API key is missing, when no
\* image was fetched, when the archive cannot be created, or when no image
\* file is in the images directory because every download failed (the
\* archive is then reported invalid); with both keys, at least one image
\* fetched, at least one download succeeded and the archive path writable it
\* returns 0, whatever the content API did and however many other downloads
\* failed.
C12_FailsAlsoWithoutAnyImageFile ==
    /\ MainFailed =>
          \/ ~KeysPresent
          \/ (cb_pc = "raised" /\ images = <<>>)
          \/ ar_pc = "raised"
          \/ (ar_pc = "validated" /\ \A k \in DOMAIN downloads : ~downloads[k].ok)
    /\ main_pc = "raised" <=> (main_pc # "start" /\ ~KeysPresent)
    /\ (main_pc = "returned" /\ images # <<>> /\ ar_pc # "raised"
           /\ \E k \in DOMAIN downloads : downloads[k].ok) => exit_code = 0
    /\ (main_pc = "returned" /\ exit_code = 0) =>
          /\ csv.exists
          /\ Len(csv.rows) = Len(images)
          /\ report.valid

C12_Witness ==
    /\ main_pc = "returned"
    /\ exit_code = 0
    /\ DownloadFailures = 1
    /\ Len(images) = 2
    /\ batch_outcome = "transport_error"
    /\ \A k \in DOMAIN ds_requests : ds_requests[k].outcome = "transport_error"

(***************************************************************************)
(* Claims about the web server                                             *)
(***************************************************************************)
\* C13: with one generation run, a failure of the run (no image found, or the
\* archive step failed) is caught in the thread: the run goes through the
\* except clause, after which the progress record has status 'error' and the
\* message of the failure, from then on.
C13_FailureRecorded ==
    /\ [](threads[1].error # "" => threads[1].pc \in {"except", "failed"})
    /\ [](threads[1].pc = "failed" =>
             /\ progress_store.status = "error"
             /\ progress_store.message = Msg("Error", threads[1].error, 0, 0)
             /\ threads[1].error \in {NoImagesError, "os error"})
    /\ (threads[1].pc = "except") ~>
             [](threads[1].pc = "failed" /\ progress_store.status = "error")

C13_Witness ==
    /\ threads[1].pc = "failed"
    /\ threads[1].error = "os error"
    /\ threads[1].csv = BatchSize + 1
    /\ progress_store.status = "error"
    /\ "completed" \in sse_sent

(***************************************************************************)
(* Claims about the catalog assembler, continued                           *)
(***************************************************************************)
\* C14: in a returned build over N images the entry at position p of the
\* catalog, and so row p of the CSV, has id ((p - 1) mod 20) + 1, whether its
\* batch was answered by the batch request or by the per-item requests: ids
\* differ within a chunk and repeat from one chunk to the next.
C14_IdsRestartPerChunk ==
    cb_pc = "returned" =>
        /\ Len(csv.rows) = Len(images)
        /\ \A p \in 1..Len(catalog_entries) :
              /\ catalog_entries[p].id = ((p - 1) % BatchSize) + 1
              /\ csv.rows[p].id = catalog_entries[p].id
        /\ \A p, q \in 1..Len(catalog_entries) :
              (p # q /\ catalog_entries[p].id = catalog_entries[q].id) =>
                  (p - 1) \div BatchSize # (q - 1) \div BatchSize

C14_Witness ==
    /\ cb_pc = "returned"
    /\ Len(csv.rows) = BatchSize + 1
    /\ csv.rows[BatchSize].id = BatchSize
    /\ csv.rows[BatchSize + 1].id = 1
    /\ batch_outcome = "list_ok"

BatchRequestsIssued == Cardinality({k \in DOMAIN ds_requests : ds_requests[k].kind = "batch"})

\* The chunk lengths the loop of build_catalog makes of n images.
ChunkLens(n) ==
    [k \in 1..((n + BatchSize - 1) \div BatchSize) |->
        Len(BatchImages([i \in 1..n |-> i], BatchSize * (k - 1)))]

\* C15: build_catalog calls generate_batch_catalog_entries once for each of the
\* ceil(N/20) consecutive chunks of the N images, in order: the k-th call gets
\* images 20(k-1)+1 .. min(20k, N), so every chunk but the last has 20 images
\* and the last has N - 20 (ceil(N/20) - 1) >= 1; the results are concatenated
\* in chunk order; 50 images give chunks of 20, 20 and 10.
C15_ChunksOfTwenty ==
    /\ [](ChunkLens(50) = <<20, 20, 10>>)
    /\ [](cb_pc = "returned" =>
            /\ BatchRequestsIssued = (Len(images) + BatchSize - 1) \div BatchSize
            /\ Len(catalog_entries) = Len(images)
            /\ \A p \in 1..Len(catalog_entries) :
                  catalog_entries[p].src_pos = ((p - 1) % BatchSize) + 1)
    /\ [][(cb_pc = "batches" /\ cb_pc' = "in_batch") =>
            LET N == Len(images)
                chunks == (N + BatchSize - 1) \div BatchSize
                k == BatchRequestsIssued + 1
            IN /\ k <= chunks
               /\ Len(catalog_entries) = BatchSize * (k - 1)
               /\ image_data' = [j \in 1..Len(image_data') |-> images[BatchSize * (k - 1) + j]]
               /\ Len(image_data') = IF k < chunks THEN BatchSize
                                     ELSE N - BatchSize * (chunks - 1)
               /\ Len(image_data') >= 1]_vars

C15_Witness ==
    /\ cb_pc = "returned"
    /\ Len(images) = BatchSize + 1
    /\ BatchRequestsIssued = 2
    /\ Len(image_data) = 1
    /\ Len(catalog_entries) = BatchSize + 1

(***************************************************************************)
(* Claims about the synthetic fallback content                             *)
(***************************************************************************)
\* The alt text followed by k copies of the filler sentence.
WithFiller(a, k) == IF k = 0 THEN a ELSE TCat(a, Txt("x", k * ExpansionLen))

\* The least number of copies that brings a text of length n to 400.
CopiesToFloor(n) ==
    IF n >= DescFloor THEN 0
    ELSE (DescFloor - n + ExpansionLen - 1) \div ExpansionLen

\* C16 as stated: the fallback description is the alt text extended by whole
\* copies of the filler sentence until it has at least 400 characters, cut to
\* 500, and so has between 400 and 500 characters, for every alt text.
C16_DescriptionFrom400To500 ==
    HardFailure(last_item.resp) =>
        /\ last_item.content.description =
              TTake(WithFiller(last_item.alt, CopiesToFloor(TLen(last_item.alt))), DescCap)
        /\ TLen(last_item.content.description) \in DescFloor..DescCap

\* C16 amended: for an alt text of fewer than 300 characters the fallback
\* description is the alt text extended by whole copies of the filler sentence
\* until it has at least 400 characters, cut to 500, and has between 400 and
\* 500 characters; for an alt text of 300 characters or more it is the alt
\* text cut to 500, without filler, and has between 300 and 500 characters.
\* It is determined by the alt text.
C16_ExpandedOnlyBelow300 ==
    HardFailure(last_item.resp) =>
        LET a == last_item.alt
            d == last_item.content.description
        IN IF TLen(a) < ExpandBelow
           THEN /\ d = TTake(WithFiller(a, CopiesToFloor(TLen(a))), DescCap)
                /\ TLen(d) \in DescFloor..DescCap
           ELSE /\ d = TTake(a, DescCap)
                /\ TLen(d) = Min(TLen(a), DescCap)
                /\ TLen(d) \in ExpandBelow..DescCap

C16_Witness ==
    /\ HardFailure(last_item.resp)
    /\ TLen(last_item.alt) = DescFloor - 1
    /\ TLen(last_item.content.description) = DescFloor - 1

(***************************************************************************)
(* Claims about the requests of one batch call                             *)
(***************************************************************************)
ItemRequestsIssued == {k \in DOMAIN ds_requests : ds_requests[k].kind = "item"}

\* The batch request comes first and is the only one; the k-th request after
\* it is the single-item request for descriptor k.
BatchFirstThenItemsInOrder ==
    ds_requests # <<>> =>
        /\ ds_requests[1].kind = "batch"
        /\ \A k \in 2..Len(ds_requests) :
              ds_requests[k].kind = "item" /\ ds_requests[k].pos = k - 1
        /\ Len(ds_requests) <= 1 + Len(image_data)

\* C17 as stated: one batch request first; single-item requests only after the
\* batch request failed in transport, with an HTTP error status, with content
\* that is no JSON or with an array of another length than n, and then one per
\* descriptor in order; none when the batch response is an array of length n.
C17_ItemRequestsOnlyAfterListedFailures ==
    /\ BatchFirstThenItemsInOrder
    /\ ItemRequestsIssued # {} =>
          batch_outcome \in {"transport_error", "http_error", "not_json", "list_length"}
    /\ batch_outcome \in {"list_ok", "list_bad_item"} => ItemRequestsIssued = {}
    /\ (ds_pc = "done" /\ ItemRequestsIssued # {}) =>
          Len(ds_requests) = 1 + Len(image_data)

\* C17 amended: one batch request first; single-item requests are issued
\* exactly when the batch request did not yield an array of n JSON objects:
\* after a transport failure, an HTTP error status, a response body without
\* the expected fields, content that is no JSON, JSON that is no array, an
\* array of another length than n, or an array of length n with an element
\* that is no object; then one per descriptor in order.  An array of n objects
\* is answered without any single-item request.  At most 1 + n requests.
C17_ItemRequestsUnlessArrayOfObjects ==
    /\ BatchFirstThenItemsInOrder
    /\ ItemRequestsIssued # {} =>
          batch_outcome \in FailureKinds \cup
              {"not_json", "not_list", "list_length", "list_bad_item"}
    /\ ds_pc = "fallback" => batch_outcome # "list_ok"
    /\ (ds_pc = "done" /\ image_data # <<>>) =>
          Len(ds_requests) = IF batch_outcome = "list_ok" THEN 1
                             ELSE 1 + Len(image_data)

C17_Witness ==
    /\ ds_pc = "done"
    /\ batch_outcome = "list_bad_item"
    /\ Len(image_data) = MaxBatch
    /\ Len(ds_requests) = 1 + MaxBatch
    /\ ds_requests[MaxBatch + 1].pos = MaxBatch

C19_EveryStageStreamed ==
    \A k \in 1..(Len(written) - 1) : written[k] \in sse_sent

\* C20 as stated: with two runs in flight neither run is made to raise by the
\* other's writes to the progress record: a run fails only for a reason of
\* its own (no image found, the archive not written), and a run that ended
\* without such a reason has written its CSV and its archive.
C20_RunsOnlyShareDisplayedValues ==
    \A r \in Runs :
        /\ threads[r].error \in {"", NoImagesError, "os error"}
        /\ threads[r].pc = "done" =>
              (threads[r].csv = threads[r].n /\ threads[r].archive >= 0)

\* C21 as stated: with one run, whenever the progress record shows status
\* 'completed' (so whenever a snapshot sent to a reader can show it) the
\* archive file exists and the record carries archive_url; and a step taken
\* while the status is 'completed' leaves it 'completed'.
C21_CompletedMeansArchiveReady ==
    /\ []((DOMAIN progress_store # {} /\ progress_store.status = "completed") =>
             /\ threads[1].archive >= 0
             /\ "archive_url" \in DOMAIN progress_store)
    /\ [][(DOMAIN progress_store # {} /\ progress_store.status = "completed") =>
             progress_store'.status = "completed"]_vars

====
